---- MODULE Spec2Model ----
(***************************************************************************)
(* Model of the kahip crate's safe wrapper (src/src/lib.rs): the Graph     *)
(* builder (new / set_vwgt / set_adjwgt) and Graph::partition, which       *)
(* marshals the borrowed buffers and calls the foreign routine kaffpa.     *)
(*                                                                         *)
(* Idx is C int.  Its width is scaled down to IdxBits bits, and usize to   *)
(* UsizeBits bits, so that slice lengths beyond the range of Idx occur     *)
(* within the bounds.  A slice never has more than 2^(UsizeBits-1)-1       *)
(* elements, as in Rust (isize::MAX).                                      *)
(***************************************************************************)
EXTENDS Integers, Sequences, FiniteSets, TLC

\* ------------------------------------------------------------- bounds ----
IdxBits == 3
MaxXadjLen == 5
MaxAdjLen == 2
MaxCalls == 2

\* ----------------------------------------------------- integer types ----
IdxMod == 2 ^ IdxBits
IdxMin == 0 - (2 ^ (IdxBits - 1))
IdxMax == (2 ^ (IdxBits - 1)) - 1
Idx == IdxMin .. IdxMax

UsizeBits == IdxBits + 2
UsizeMod == 2 ^ UsizeBits

\* n as Idx: truncation to IdxBits bits, two's complement.
WrapIdx(n) == ((n - IdxMin) % IdxMod) + IdxMin

\* A plausible slip: the magnitude of the value instead of its bit pattern.
IdxUnsignedAbs(x) == IF x < 0 THEN 0 - x ELSE x

\* x as usize, for x of type Idx: sign extension, then the bits read unsigned.
IdxAsUsize(x) == x % UsizeMod

\* usize::try_from(x) is Ok exactly for the non-negative values.
TryIntoUsizeOk(x) == x >= 0

\* ------------------------------------------------------ Option, slices ----
None == <<>>
Some(x) == <<x>>

NullPtr == <<>>
Ptr(buf) == <<buf>>

Last(s) == s[Len(s)]

Fill(n, v) == [i \in 1 .. n |-> v]

RECURSIVE SumSeq(_)
SumSeq(s) == IF s = <<>> THEN 0 ELSE s[1] + SumSeq(Tail(s))

\* -------------------------------------------------------------- Mode ----
Modes == {"Fast", "Eco", "Strong", "FastSocial", "EcoSocial", "StrongSocial"}

\* mode as Idx: each variant carries the constant of the same name that the
\* declaration layer takes from the engine's header.
ModeAsIdx(mode) ==
  CASE mode = "Fast" -> "FAST"
    [] mode = "Eco" -> "ECO"
    [] mode = "Strong" -> "STRONG"
    [] mode = "FastSocial" -> "FASTSOCIAL"
    [] mode = "EcoSocial" -> "ECOSOCIAL"
    [] mode = "StrongSocial" -> "STRONGSOCIAL"

\* ------------------------------------------------------ caller inputs ----
\* The last offsets tried: the most negative Idx, -1, and 0 .. MaxAdjLen.
XadjLasts == {IdxMin, -1} \cup (0 .. MaxAdjLen)

\* CSR offsets: the empty slice, and every length up to MaxXadjLen with
\* every last offset above (all edges belong to the last vertex).
XadjInputs ==
  {<<>>} \cup
  {[i \in 1 .. n |-> IF i = n THEN l ELSE 0] :
     n \in 1 .. MaxXadjLen, l \in XadjLasts}

\* Neighbour lists: every slot names vertex 0.
AdjncyInputs == {Fill(n, 0) : n \in 0 .. MaxAdjLen}

\* Weight buffers: every length up to the largest vertex count.
WgtInputs == {Fill(n, w) : n \in 0 .. (MaxXadjLen - 1), w \in {1, 2}}

NPartsInputs == {-1, 0, 1, 2}
SeedInputs == {1, 2}
ImbalanceInputs == {3}
ModeInputs == {"Eco"}
SuppressInputs == {TRUE}

Engines == {0, 1}

VARIABLES
  graph,           \* None, or Some(the Graph value the caller holds)
  op,              \* the last operation: its inputs, outcome, foreign call;
                   \* repeat: it is a partition call that directly follows a
                   \* partition call with the same arguments on the same
                   \* Graph, whose result is prevRet
  nPartition,      \* partition invocations so far
  nForeign,        \* kaffpa calls so far
  lastVwgt,        \* the buffer of the latest successful set_vwgt, as a pointer
  lastAdjwgt,      \* the buffer of the latest successful set_adjwgt
  overflowChecks,  \* build profile: integer overflow panics (debug) or wraps
  eng              \* which engine the crate is linked against

vars ==
  <<graph, op, nPartition, nForeign, lastVwgt, lastAdjwgt, overflowChecks, eng>>

NoOp ==
  [name |-> "init", ok |-> TRUE, self |-> None, xadj |-> <<>>, adjncy |-> <<>>,
   buf |-> <<>>, convFailed |-> FALSE, scalars |-> None, ffi |-> None,
   ret |-> None, repeat |-> FALSE, prevRet |-> None]

\* ------------------------------------------------------- Graph::new ----
NewOkNoLengthCheck(xadj, adjncy) == Len(xadj) # 0

NewOkRejectSingle(xadj, adjncy) ==
  /\ Len(xadj) > 1
  /\ Len(adjncy) = IdxAsUsize(Last(xadj))

\* The two assertions of Graph::new (xadj.last().unwrap() is reached only
\* for a non-empty xadj).
NewOk(xadj, adjncy) ==
  /\ Len(xadj) # 0
  /\ Len(adjncy) = IdxAsUsize(Last(xadj))

GraphNew(xadj, adjncy) ==
  [xadj |-> xadj, adjncy |-> adjncy, adjwgt |-> None, vwgt |-> None]

New(xadj, adjncy) ==
  /\ IF NewOk(xadj, adjncy)
       THEN /\ graph' = Some(GraphNew(xadj, adjncy))
            /\ op' = [NoOp EXCEPT !.name = "new", !.xadj = xadj,
                                  !.adjncy = adjncy]
       ELSE /\ graph' = None
            /\ op' = [NoOp EXCEPT !.name = "new", !.ok = FALSE, !.xadj = xadj,
                                  !.adjncy = adjncy]
  /\ lastVwgt' = NullPtr
  /\ lastAdjwgt' = NullPtr
  /\ UNCHANGED <<nPartition, nForeign, overflowChecks, eng>>

\* ---------------------------------------------------------- set_vwgt ----
SetVwgtOkOffByOne(g, vwgt) == Len(vwgt) = Len(g.xadj)

SetVwgtOk(g, vwgt) == Len(vwgt) = Len(g.xadj) - 1

SetVwgtWrongSlot(g, vwgt) == [g EXCEPT !.adjwgt = Some(vwgt)]

SetVwgtField(g, vwgt) == [g EXCEPT !.vwgt = Some(vwgt)]

SetVwgt(vwgt) ==
  /\ graph # None
  /\ LET g == graph[1] IN
       IF SetVwgtOk(g, vwgt)
         THEN /\ graph' = Some(SetVwgtField(g, vwgt))
              /\ op' = [NoOp EXCEPT !.name = "set_vwgt", !.self = graph,
                                    !.buf = vwgt]
              /\ lastVwgt' = Ptr(vwgt)
              /\ UNCHANGED lastAdjwgt
         ELSE /\ graph' = None
              /\ op' = [NoOp EXCEPT !.name = "set_vwgt", !.ok = FALSE,
                                    !.self = graph, !.buf = vwgt]
              /\ UNCHANGED <<lastVwgt, lastAdjwgt>>
  /\ UNCHANGED <<nPartition, nForeign, overflowChecks, eng>>

\* -------------------------------------------------------- set_adjwgt ----
SetAdjwgtOkAsVwgt(g, adjwgt) == Len(adjwgt) = Len(g.xadj) - 1

SetAdjwgtOk(g, adjwgt) ==
  /\ TryIntoUsizeOk(Last(g.xadj))
  /\ Len(adjwgt) = Last(g.xadj)

SetAdjwgtField(g, adjwgt) == [g EXCEPT !.adjwgt = Some(adjwgt)]

SetAdjwgt(adjwgt) ==
  /\ graph # None
  /\ LET g == graph[1] IN
       IF SetAdjwgtOk(g, adjwgt)
         THEN /\ graph' = Some(SetAdjwgtField(g, adjwgt))
              /\ op' = [NoOp EXCEPT !.name = "set_adjwgt", !.self = graph,
                                    !.buf = adjwgt]
              /\ lastAdjwgt' = Ptr(adjwgt)
              /\ UNCHANGED lastVwgt
         ELSE /\ graph' = None
              /\ op' = [NoOp EXCEPT !.name = "set_adjwgt", !.ok = FALSE,
                                    !.self = graph, !.buf = adjwgt,
                                    !.convFailed =
                                       ~TryIntoUsizeOk(Last(g.xadj))]
              /\ UNCHANGED <<lastVwgt, lastAdjwgt>>
  /\ UNCHANGED <<nPartition, nForeign, overflowChecks, eng>>

\* ------------------------------------------------- the engine, kaffpa ----
\* The engine is opaque.  It is a fixed function of what it is handed (the
\* engine's contract: the seed makes it deterministic); which function is
\* not known, so eng selects one.  With n_parts >= 1 it writes a part index
\* below n_parts for each of the nvtxs vertices; what it does with another
\* n_parts is not specified: engine 0 leaves the output buffer alone, engine
\* 1 writes n_parts itself.  It always writes the edge cut.
WgtSum(ptr) == IF ptr = NullPtr THEN 0 ELSE SumSeq(ptr[1])

ModeRank(c) ==
  CASE c = "FAST" -> 0 [] c = "ECO" -> 1 [] c = "STRONG" -> 2
    [] c = "FASTSOCIAL" -> 3 [] c = "ECOSOCIAL" -> 4 [] c = "STRONGSOCIAL" -> 5

EngineEntry(e, a, i) ==
  IF a.n_parts >= 1
    THEN (e + i + a.seed + WgtSum(a.vwgt) + WgtSum(a.adjwgt)
            + ModeRank(a.mode)) % a.n_parts
    ELSE IF e = 0 THEN a.part[i] ELSE a.n_parts

\* Total weight of the adjacency slots whose two endpoints lie in different
\* parts; every undirected edge has two slots.
EngineCut(a, part) ==
  LET nv == IF a.nvtxs < Len(part) THEN a.nvtxs ELSE Len(part)
      slotCut(j) ==
        \E u \in 1 .. nv :
          /\ u + 1 <= Len(a.xadj)
          /\ a.xadj[u] < j
          /\ j <= a.xadj[u + 1]
          /\ (a.adjncy[j] + 1) \in 1 .. nv
          /\ part[u] # part[a.adjncy[j] + 1]
      w(j) == IF a.adjwgt = NullPtr \/ j > Len(a.adjwgt[1]) THEN 1
              ELSE a.adjwgt[1][j]
  IN WrapIdx(SumSeq([j \in 1 .. Len(a.adjncy) |->
                       IF slotCut(j) THEN w(j) ELSE 0]) \div 2)

Kaffpa(e, a) ==
  LET part == [i \in 1 .. Len(a.part) |->
                 IF i <= a.nvtxs THEN EngineEntry(e, a, i) ELSE a.part[i]]
  IN [part |-> part, edgecut |-> EngineCut(a, part)]

\* -------------------------------------------------- Graph::partition ----
\* self.xadj.len() as Idx - 1: the cast truncates, the subtraction is in Idx.
NvtxsOverflows(g) == WrapIdx(Len(g.xadj)) - 1 < IdxMin

Nvtxs(g) == WrapIdx(WrapIdx(Len(g.xadj)) - 1)

VwgtPtr(g) == IF g.vwgt # None THEN Ptr(g.vwgt[1]) ELSE NullPtr

AdjwgtPtr(g) == IF g.adjwgt # None THEN Ptr(g.adjwgt[1]) ELSE NullPtr

PartBufferOffByOne(g) == Fill(Len(g.xadj), 0)

\* vec![0; self.xadj.len() - 1]
PartBuffer(g) == Fill(Len(g.xadj) - 1, 0)

FfiArgs(g, s) ==
  [nvtxs |-> Nvtxs(g), vwgt |-> VwgtPtr(g), xadj |-> g.xadj,
   adjwgt |-> AdjwgtPtr(g), adjncy |-> g.adjncy, n_parts |-> s.n_parts,
   imbalance |-> s.imbalance, suppress_output |-> s.suppress_output,
   seed |-> s.seed, mode |-> ModeAsIdx(s.mode), part |-> PartBuffer(g)]

GraphAfterPartitionTake(g) == [g EXCEPT !.vwgt = None, !.adjwgt = None]

\* partition borrows the slots (as_mut) and assigns no field of self.
GraphAfterPartition(g) == g

Partition(n_parts, imbalance, suppress_output, seed, mode) ==
  /\ graph # None
  /\ nPartition < MaxCalls
  /\ nPartition' = nPartition + 1
  /\ LET g == graph[1]
         s == [n_parts |-> n_parts, imbalance |-> imbalance,
               suppress_output |-> suppress_output, seed |-> seed,
               mode |-> mode]
     IN IF overflowChecks /\ NvtxsOverflows(g)
          THEN /\ graph' = None
               /\ op' = [NoOp EXCEPT !.name = "partition", !.ok = FALSE,
                                     !.self = graph, !.scalars = Some(s)]
               /\ UNCHANGED nForeign
          ELSE LET a == FfiArgs(g, s)
                   out == Kaffpa(eng, a)
               IN /\ graph' = Some(GraphAfterPartition(g))
                  /\ op' = [NoOp EXCEPT !.name = "partition",
                                        !.self = graph, !.scalars = Some(s),
                                        !.ffi = Some(a),
                                        !.ret = Some([part |-> out.part,
                                                      edgecut |-> out.edgecut]),
                                        !.repeat = /\ op.name = "partition"
                                                   /\ op.ret # None
                                                   /\ op.scalars = Some(s),
                                        !.prevRet =
                                           IF /\ op.name = "partition"
                                              /\ op.ret # None
                                              /\ op.scalars = Some(s)
                                             THEN op.ret ELSE None]
                  /\ nForeign' = nForeign + 1
  /\ UNCHANGED <<lastVwgt, lastAdjwgt, overflowChecks, eng>>

\* ------------------------------------------------------ specification ----
Init ==
  /\ graph = None
  /\ op = NoOp
  /\ nPartition = 0
  /\ nForeign = 0
  /\ lastVwgt = NullPtr
  /\ lastAdjwgt = NullPtr
  /\ overflowChecks \in BOOLEAN
  /\ eng \in Engines

DoNew == \E xadj \in XadjInputs, adjncy \in AdjncyInputs : New(xadj, adjncy)

DoSetVwgt == \E vwgt \in WgtInputs : SetVwgt(vwgt)

DoSetAdjwgt == \E adjwgt \in WgtInputs : SetAdjwgt(adjwgt)

DoPartition ==
  \E n_parts \in NPartsInputs, imbalance \in ImbalanceInputs,
     suppress_output \in SuppressInputs, seed \in SeedInputs, mode \in ModeInputs :
    Partition(n_parts, imbalance, suppress_output, seed, mode)

Next == DoNew \/ DoSetVwgt \/ DoSetAdjwgt \/ DoPartition

Spec == Init /\ [][Next]_vars

TypeOK ==
  /\ nPartition \in 0 .. MaxCalls
  /\ nForeign \in 0 .. MaxCalls
  /\ op.name \in {"init", "new", "set_vwgt", "set_adjwgt", "partition"}

\* ============================================================ claims ====
OpSelf == op.self[1]
OpFfi == op.ffi[1]
OpRet == op.ret[1]
OpScalars == op.scalars[1]

\* C1: Graph::new succeeds, with both weight slots empty, exactly when xadj
\* is non-empty and adjncy has as many elements as xadj's last element says;
\* otherwise (a negative last element, or xadj = [0, 1] with two adjncy
\* elements, included) it panics and there is no Graph.
C1_NewSucceedsIff ==
  op.name = "new" =>
    /\ op.ok <=> (/\ Len(op.xadj) # 0
                  /\ Len(op.adjncy) = op.xadj[Len(op.xadj)])
    /\ op.ok => graph = Some([xadj |-> op.xadj, adjncy |-> op.adjncy,
                              adjwgt |-> None, vwgt |-> None])
    /\ ~op.ok => graph = None
    /\ (Len(op.xadj) # 0 /\ op.xadj[Len(op.xadj)] < 0) => ~op.ok
    /\ (op.xadj = <<0, 1>> /\ Len(op.adjncy) = 2) => ~op.ok

\* Graph::new has rejected a negative last offset whose magnitude is the
\* length of adjncy.
C1_Witness ==
  /\ op.name = "new"
  /\ ~op.ok
  /\ Len(op.xadj) = 2
  /\ op.xadj[2] = -1
  /\ Len(op.adjncy) = 1

\* C2 as stated: Graph::new rejects xadj = [0] with the empty adjncy, so
\* partition is never invoked on a graph of zero vertices.
C2_ZeroVertexRejected ==
  /\ (op.name = "new" /\ op.xadj = <<0>> /\ op.adjncy = <<>>) => ~op.ok
  /\ op.name = "partition" => Len(OpSelf.xadj) - 1 # 0

\* C2, amended: Graph::new rejects the empty xadj, so partition is never
\* invoked without an offsets array; xadj = [0] with the empty adjncy is
\* accepted, and partition on it calls the engine with zero vertices.
C2_EmptyXadjRejected ==
  /\ (op.name = "new" /\ op.xadj = <<>>) => (~op.ok /\ graph = None)
  /\ (op.name = "new" /\ op.xadj = <<0>> /\ op.adjncy = <<>>) =>
       (op.ok /\ graph # None)
  /\ op.name = "partition" => Len(OpSelf.xadj) >= 1
  /\ (op.name = "partition" /\ OpSelf.xadj = <<0>>) =>
       (op.ffi # None /\ OpFfi.nvtxs = 0)

\* The engine has been called for the graph xadj = [0].
C2_Witness ==
  /\ op.name = "partition"
  /\ OpSelf.xadj = <<0>>
  /\ op.ffi # None
  /\ OpFfi.nvtxs = 0
  /\ nForeign >= 1

\* C3: on every Graph, however many setters were applied before, set_vwgt
\* succeeds exactly when the buffer has xadj.len() - 1 elements; otherwise
\* it panics and returns no Graph.
C3_SetVwgtSucceedsIff ==
  op.name = "set_vwgt" =>
    /\ op.ok <=> (Len(op.buf) = Len(OpSelf.xadj) - 1)
    /\ op.ok => graph # None
    /\ ~op.ok => graph = None

\* set_vwgt has panicked on a Graph that already carried both weights.
C3_Witness ==
  /\ op.name = "set_vwgt"
  /\ ~op.ok
  /\ OpSelf.vwgt # None
  /\ OpSelf.adjwgt # None

\* C4: on every Graph made by Graph::new, set_adjwgt succeeds exactly when
\* the buffer has as many elements as xadj's last element says; otherwise it
\* panics and returns no Graph; the conversion of that last element to
\* usize never fails.
C4_SetAdjwgtSucceedsIff ==
  op.name = "set_adjwgt" =>
    /\ ~op.convFailed
    /\ op.ok <=> (Len(op.buf) = OpSelf.xadj[Len(OpSelf.xadj)])
    /\ op.ok => graph # None
    /\ ~op.ok => graph = None

\* set_adjwgt has accepted a buffer of two edge weights.
C4_Witness ==
  /\ op.name = "set_adjwgt"
  /\ op.ok
  /\ Len(op.buf) = 2
  /\ graph # None

\* C5 as stated: whatever n_parts is, a partition call that returns gives
\* V = xadj.len() - 1 entries, each in [0, n_parts).
C5_PartInRangeAnyNParts ==
  (op.name = "partition" /\ op.ret # None) =>
    /\ Len(OpRet.part) = Len(OpSelf.xadj) - 1
    /\ \A i \in 1 .. Len(OpRet.part) :
         0 <= OpRet.part[i] /\ OpRet.part[i] < OpScalars.n_parts

\* C5, amended: a partition call with n_parts >= 1 that returns gives
\* V = xadj.len() - 1 entries, each in [0, n_parts).
C5_PartInRange ==
  (op.name = "partition" /\ op.ret # None /\ OpScalars.n_parts >= 1) =>
    /\ Len(OpRet.part) = Len(OpSelf.xadj) - 1
    /\ \A i \in 1 .. Len(OpRet.part) :
         0 <= OpRet.part[i] /\ OpRet.part[i] < OpScalars.n_parts

\* A partition into two parts has returned with both parts in use.
C5_Witness ==
  /\ op.name = "partition"
  /\ op.ret # None
  /\ OpScalars.n_parts = 2
  /\ \E i, j \in 1 .. Len(OpRet.part) : OpRet.part[i] = 0 /\ OpRet.part[j] = 1

\* C6: there are as many kaffpa calls as partition invocations, and new,
\* set_vwgt and set_adjwgt make none, whether they succeed or panic.
C6_OneForeignCallPerPartition ==
  /\ nForeign = nPartition
  /\ op.name \in {"new", "set_vwgt", "set_adjwgt"} => op.ffi = None

\* C7: a partition call that directly follows a partition call with the
\* same arguments on the same Graph returns the same (part, edgecut).
C7_Deterministic ==
  (op.name = "partition" /\ op.repeat /\ op.ret # None) => op.ret = op.prevRet

\* partition has returned twice in a row, with the same arguments, on a
\* Graph that carries vertex weights.
C7_Witness ==
  /\ op.name = "partition"
  /\ op.repeat
  /\ op.ret # None
  /\ OpSelf.vwgt # None
  /\ OpScalars.n_parts = 2
  /\ nPartition = 2

\* C8: partition hands the engine the buffer of the latest set_vwgt and the
\* buffer of the latest set_adjwgt, null for a setter never called; a
\* setter assigns its own slot and nothing else.
C8_WeightArgsAreLatest ==
  /\ (op.name = "partition" /\ op.ffi # None) =>
       (OpFfi.vwgt = lastVwgt /\ OpFfi.adjwgt = lastAdjwgt)
  /\ (op.name = "set_vwgt" /\ op.ok) =>
       graph = Some([OpSelf EXCEPT !.vwgt = Some(op.buf)])
  /\ (op.name = "set_adjwgt" /\ op.ok) =>
       graph = Some([OpSelf EXCEPT !.adjwgt = Some(op.buf)])
  /\ graph # None => (VwgtPtr(graph[1]) = lastVwgt
                      /\ AdjwgtPtr(graph[1]) = lastAdjwgt)

\* The engine has been handed vertex weights and a null edge-weight pointer.
C8_Witness ==
  /\ op.name = "partition"
  /\ op.ffi # None
  /\ OpFfi.vwgt = Ptr(<<2, 2>>)
  /\ OpFfi.adjwgt = NullPtr

\* C9: the vertex count handed to the engine is xadj.len() - 1 and is the
\* length of the output buffer, for every length of xadj.
C9_NvtxsIsVertexCount ==
  (op.name = "partition" /\ op.ffi # None) =>
    /\ OpFfi.nvtxs = Len(OpSelf.xadj) - 1
    /\ Len(OpFfi.part) = OpFfi.nvtxs

\* C10: every Graph has a non-empty xadj with a non-negative last element,
\* adjncy of that length, vwgt absent or of length xadj.len() - 1, adjwgt
\* absent or of the length of adjncy; every foreign call gets such buffers.
GraphWellFormed(xadj, adjncy, vwgt, adjwgt) ==
  /\ Len(xadj) >= 1
  /\ xadj[Len(xadj)] >= 0
  /\ Len(adjncy) = xadj[Len(xadj)]
  /\ vwgt = <<>> \/ Len(vwgt[1]) = Len(xadj) - 1
  /\ adjwgt = <<>> \/ Len(adjwgt[1]) = xadj[Len(xadj)]

C10_GraphInvariant ==
  /\ graph # None =>
       GraphWellFormed(graph[1].xadj, graph[1].adjncy, graph[1].vwgt,
                       graph[1].adjwgt)
  /\ op.ffi # None =>
       GraphWellFormed(OpFfi.xadj, OpFfi.adjncy, OpFfi.vwgt, OpFfi.adjwgt)

\* The engine has been called on a Graph that carries both weights.
C10_Witness ==
  /\ op.ffi # None
  /\ graph # None
  /\ OpFfi.vwgt # NullPtr
  /\ OpFfi.adjwgt # NullPtr
  /\ Len(OpFfi.adjncy) = 2

====
